---- MODULE Spec2Model ----
(***************************************************************************)
(* A model of prosstt/simulation.py: the program simulator                 *)
(* (sim_expr_branch), the coefficient simulator (simulate_coefficients),   *)
(* the lineage corrector (simulate_lineage, correct_parallel) and the      *)
(* sampling strategies with their shared final stage (draw_counts).        *)
(*                                                                         *)
(* Python lists and arrays are 0-based; the sequences below are 1-based,   *)
(* so row i of an array is element i+1 of the sequence that models it.     *)
(* Counters that the code uses as indices (k, loops, offsets) keep the     *)
(* code's 0-based values.                                                  *)
(***************************************************************************)
EXTENDS Integers, Sequences, FiniteSets, TLC

(***************************************************************************)
(* Bounds of the model.                                                    *)
(***************************************************************************)
\* sim_expr_branch is called with K in 0..MaxK
MaxK == 2
\* tolerances are the rationals n / TolDen
TolDen == 2
\* cap on the retry counter of sim_expr_branch (the code has none)
MaxRetries == 3
\* cap on the passes through the while loop of correct_parallel for one group
\* (the code has none)
MaxRedraws == 2
\* draw_counts is called on its own with 1..MaxCells cells
MaxCells == 2
\* sample_whole_tree is called with n_factor in 0..MaxFactor
MaxFactor == 2

\* the values a step of a diffusion takes in the model
WalkVals == {0, 1}
\* the branch lengths sim_expr_branch is called with on its own
BranchLens == {2, 3}

\* simulate_coefficients is called on trees with 1..MaxModules modules and
\* 1..MaxGenes genes
MaxModules == 2
MaxGenes == 2
\* the values a drawn coefficient takes in the model (gamma and beta draws
\* are positive)
CoefVals == {1, 2}
\* the shape parameters a caller passes, in hundredths
ShapeVals == {5, 100, 200}

\* sim_expr_branch(T, K, cutoff=0.5, max_loops=100): the default of max_loops
DefaultMaxLoops == 100
\* simulate_coefficients(tree, a=0.05, **kwargs): the default of a, in hundredths
DefaultA == 5
\* _sim_coeff_beta(tree, groups, a=2, b=2): the defaults, in hundredths
BetaDefaultA == 200
BetaDefaultB == 200

(***************************************************************************)
(* Arithmetic helpers.                                                     *)
(***************************************************************************)
Min(x, y) == IF x < y THEN x ELSE y

RECURSIVE SumTo(_, _)
\* sum of f[1] .. f[n]
SumTo(f, n) == IF n = 0 THEN 0 ELSE f[n] + SumTo(f, n - 1)

\* n * covariance of the first n entries of u and v, times n (an integer)
Cov(u, v, n) ==
    n * SumTo([i \in 1..n |-> u[i] * v[i]], n) - SumTo(u, n) * SumTo(v, n)

\* Pearson's r of the first n entries of u and v is defined (not nan)
PearsonDefined(u, v, n) == n >= 2 /\ Cov(u, u, n) > 0 /\ Cov(v, v, n) > 0

\* r(u, v) > cn / TolDen, computed without division or square roots;
\* a nan correlation compares False, as in Python
PearsonGreater(u, v, n, cn) ==
    LET c  == Cov(u, v, n)
        vv == Cov(u, u, n) * Cov(v, v, n)
    IN  /\ PearsonDefined(u, v, n)
        /\ IF cn >= 0
           THEN c > 0 /\ c * c * TolDen * TolDen > cn * cn * vv
           ELSE c >= 0 \/ c * c * TolDen * TolDen < cn * cn * vv

\* |r(u, v)| > cn / TolDen
PearsonMagGreater(u, v, n, cn) ==
    LET c  == Cov(u, v, n)
        vv == Cov(u, u, n) * Cov(v, v, n)
    IN  /\ PearsonDefined(u, v, n)
        /\ (cn < 0 \/ c * c * TolDen * TolDen > cn * cn * vv)

(***************************************************************************)
(* Matrices are sequences of rows.                                         *)
(***************************************************************************)
Zeros(rows, cols) == [i \in 1..rows |-> [j \in 1..cols |-> 0]]

\* np.transpose of a rows x cols matrix
Transpose(M, rows, cols) == [j \in 1..cols |-> [i \in 1..rows |-> M[i][j]]]

\* column j of a matrix with the given number of rows
Column(M, rows, j) == [i \in 1..rows |-> M[i][j]]

\* np.dot(P, H): P is rows x inner, H is inner x cols
Dot(P, H, rows, inner, cols) ==
    [i \in 1..rows |->
        [g \in 1..cols |-> SumTo([m \in 1..inner |-> P[i][m] * H[m][g]], inner)]]

(***************************************************************************)
(* diffusion(steps): a random walk of the given length.  The walk is a     *)
(* sum of normal draws, so every sequence of that length is a possible     *)
(* return value; the model draws from the walks over WalkVals.             *)
(***************************************************************************)
diffusion(steps) == [1..steps -> WalkVals]

(***************************************************************************)
(* sut.test_correlation(W, k, cutoff): the candidate row k of W correlates *)
(* above the cutoff with one of the rows 0..k-1 (Pearson magnitude).       *)
(***************************************************************************)
test_correlation(Wm, kk, cut, steps) ==
    \E i \in 1..kk : PearsonMagGreater(Wm[i], Wm[kk + 1], steps, cut)

VARIABLES
    \* the caller's tree and keyword arguments
    tree,                     \* the Tree object
    kw,                       \* the keywords the caller writes: a subset of {"a", "b"}
    kw_a, kw_b,               \* the values given with them (0 when not given)
    \* simulate_coefficients
    coef_pc,                  \* "call", "done", or "idle" when not running
    coefficients,             \* the returned modules x G matrix
    coef_dist,                \* the distribution the entries were drawn from
    warnings,                 \* number of UserWarnings emitted
    \* simulate_lineage and correct_parallel
    sl_pc,                    \* position in simulate_lineage
    exit_code,                \* the status the process ended with, -1 while it runs
    intra_branch_tol,         \* the tolerances, as numerators over TolDen
    inter_branch_tol,
    programs,                 \* branch -> T x modules matrix
    relative_means,           \* branch -> T x G matrix
    cp_todo,                  \* keys of "for key in parallel" still to come
    cp_key,                   \* the key whose group is in the while loop
    redraws,                  \* key -> passes through the body of the while loop
    drawn,                    \* branch -> calls of sim_expr_branch for it
    \* sim_expr_branch
    T, K, cutoff, max_loops,  \* the arguments of the running call
    W,                        \* the K x T work matrix
    k, loops,                 \* column index and retry counter
    seb_pc,                   \* "loop" while running, "done" on return
    seb_result,               \* the returned T x K matrix
    seb_calls,                \* depth of the recursion (1 = the caller's call)
    seb_draws,                \* diffusions drawn by the running call
    \* the sampling strategies and draw_counts
    smp_pc,                   \* position in the running sampling call
    smp_entry,                \* the function the caller called
    tree_means,               \* tree.means: branch -> T x G matrix
    n_factor, scale,          \* arguments of sample_whole_tree
    alphas, betas,            \* what cm.generate_negbin_params returned
    picked,                   \* sut.pick_branches was called
    dc_pseudotime, dc_branches, dc_scalings, dc_alpha, dc_beta,
                              \* the arguments of draw_counts
    dc_n,                     \* cells done by the loop of draw_counts
    dc_last,                  \* what the loop did for the last of them
    \* draw_times
    dt_pc,                    \* the line draw_times is about to execute
    timepoint, no_cells, max_time,
                              \* its arguments
    dt_rvs,                   \* what sp.stats.norm.rvs returned, in 1/DrawDen
    dt_sample_pt              \* the array sample_pt (integers from line 478 on)

sebVars == <<T, K, cutoff, max_loops, W, k, loops, seb_pc, seb_result,
             seb_calls, seb_draws>>

callVars == <<tree, kw, kw_a, kw_b>>

coefVars == <<coef_pc, coefficients, coef_dist, warnings>>

slVars == <<sl_pc, exit_code, intra_branch_tol, inter_branch_tol, programs, relative_means,
            cp_todo, cp_key, redraws, drawn>>

smpVars == <<smp_pc, smp_entry, tree_means, n_factor, scale, alphas, betas, picked,
             dc_pseudotime, dc_branches, dc_scalings, dc_alpha, dc_beta, dc_n,
             dc_last>>

dtVars == <<dt_pc, timepoint, no_cells, max_time, dt_rvs, dt_sample_pt>>

vars == <<callVars, coefVars, slVars, sebVars, smpVars, dtVars>>

\* the parts of the module that a run does not enter stay in these states
CallIdle ==
    /\ tree = [modules |-> 0, G |-> 0]
    /\ kw = {}
    /\ kw_a = 0
    /\ kw_b = 0

KwIdle ==
    /\ kw = {}
    /\ kw_a = 0
    /\ kw_b = 0

CoefIdle ==
    /\ coef_pc = "idle"
    /\ coefficients = <<>>
    /\ coef_dist = [family |-> "none", a |-> 0, b |-> 0]
    /\ warnings = 0

SebIdle ==
    /\ T = 0
    /\ K = 0
    /\ cutoff = 0
    /\ max_loops = 0
    /\ W = <<>>
    /\ k = 0
    /\ loops = 0
    /\ seb_pc = "idle"
    /\ seb_result = <<>>
    /\ seb_calls = 0
    /\ seb_draws = 0

NoCell == [t |-> 0, b |-> 0, offset |-> 0, rows |-> 0, mu |-> <<>>, diags |-> 0]

SmpIdle ==
    /\ smp_pc = "idle"
    /\ smp_entry = "none"
    /\ tree_means = <<>>
    /\ n_factor = 0
    /\ scale = FALSE
    /\ alphas = <<>>
    /\ betas = <<>>
    /\ picked = FALSE
    /\ dc_pseudotime = <<>>
    /\ dc_branches = <<>>
    /\ dc_scalings = <<>>
    /\ dc_alpha = <<>>
    /\ dc_beta = <<>>
    /\ dc_n = 0
    /\ dc_last = NoCell

SlIdle ==
    /\ sl_pc = "idle"
    /\ exit_code = -1
    /\ intra_branch_tol = 0
    /\ inter_branch_tol = 0
    /\ programs = <<>>
    /\ relative_means = <<>>
    /\ cp_todo = <<>>
    /\ cp_key = -1
    /\ redraws = <<>>
    /\ drawn = <<>>

DtIdle ==
    /\ dt_pc = "idle"
    /\ timepoint = 0
    /\ no_cells = 0
    /\ max_time = 0
    /\ dt_rvs = <<>>
    /\ dt_sample_pt = <<>>

\* a sampling call: no keywords, and nothing else of the module running
CallerIdle ==
    /\ KwIdle
    /\ DtIdle
    /\ CoefIdle
    /\ SebIdle
    /\ SlIdle

(***************************************************************************)
(* sim_expr_branch                                                         *)
(***************************************************************************)
\* lines 89-91: the state a call starts in
SebEnter(t, kk, cut, ml, depth) ==
    /\ T' = t
    /\ K' = kk
    /\ cutoff' = cut
    /\ max_loops' = ml
    /\ W' = Zeros(kk, t)
    /\ k' = 0
    /\ loops' = 0
    /\ seb_pc' = "loop"
    /\ seb_result' = <<>>
    /\ seb_calls' = depth
    /\ seb_draws' = 0

\* a variant of the loop body that advances to the next column on a rejection
SebIterationSkipping(d) ==
    /\ W' = [W EXCEPT ![k + 1] = d]
    /\ loops' = 0
    /\ k' = k + 1
    /\ seb_draws' = seb_draws + 1
    /\ UNCHANGED <<T, K, cutoff, max_loops, seb_pc, seb_result, seb_calls>>

\* a variant of the loop body that stays on its column after an acceptance
SebIterationStaying(d) ==
    /\ W' = [W EXCEPT ![k + 1] = d]
    /\ loops' = IF test_correlation(W', k, cutoff, T) THEN loops + 1 ELSE 0
    /\ seb_draws' = seb_draws + 1
    /\ UNCHANGED <<T, K, cutoff, max_loops, k, seb_pc, seb_result, seb_calls>>

\* lines 93-109: one pass through the body of "while k < K" with d = diffusion(T)
SebIteration(d) ==
    LET W1 == [W EXCEPT ![k + 1] = d] IN
    IF test_correlation(W1, k, cutoff, T)
    THEN \* lines 96-99: count the retry and "continue": line 104 is skipped
         /\ W' = W1
         /\ loops' = loops + 1
         /\ seb_draws' = seb_draws + 1
         /\ UNCHANGED <<T, K, cutoff, max_loops, k, seb_pc, seb_result, seb_calls>>
    ELSE \* lines 100-109: accept, then test the limit with loops = 0
         IF 0 > max_loops
         THEN \* line 109: the recursive call, max_loops back at its default
              SebEnter(T, K, cutoff, DefaultMaxLoops, seb_calls + 1)
         ELSE /\ W' = W1
              /\ loops' = 0
              /\ k' = k + 1
              /\ seb_draws' = seb_draws + 1
              /\ UNCHANGED <<T, K, cutoff, max_loops, seb_pc, seb_result, seb_calls>>

\* the draw d of line 93 passes the test of line 95 against the accepted columns
Accepted(d) == ~test_correlation([W EXCEPT ![k + 1] = d], k, cutoff, T)

\* line 92 with k < K; the cap of the model is on the rejections in a row
SebLoop ==
    /\ seb_pc = "loop"
    /\ k < K
    /\ \E d \in diffusion(T) :
          /\ loops < MaxRetries \/ Accepted(d)
          /\ SebIteration(d)
    /\ UNCHANGED <<dtVars, callVars, coefVars, slVars, smpVars>>

\* the passes through the loop body in which the candidate is accepted
SebAccept ==
    /\ seb_pc = "loop"
    /\ k < K
    /\ \E d \in diffusion(T) :
          /\ Accepted(d)
          /\ SebIteration(d)
    /\ UNCHANGED <<dtVars, callVars, coefVars, slVars, smpVars>>

\* line 92 with k >= K, line 111
SebReturn ==
    /\ seb_pc = "loop"
    /\ k >= K
    /\ seb_pc' = "done"
    /\ seb_result' = Transpose(W, K, T)
    /\ UNCHANGED <<T, K, cutoff, max_loops, W, k, loops, seb_calls, seb_draws>>
    /\ UNCHANGED <<dtVars, callVars, coefVars, slVars, smpVars>>

SebInit ==
    /\ DtIdle
    /\ CallIdle
    /\ CoefIdle
    /\ SlIdle
    /\ SmpIdle
    /\ T \in BranchLens
    /\ K \in 0..MaxK
    /\ cutoff \in 0..TolDen
    /\ max_loops \in -1..1
    /\ W = Zeros(K, T)
    /\ k = 0
    /\ loops = 0
    /\ seb_pc = "loop"
    /\ seb_result = <<>>
    /\ seb_calls = 1
    /\ seb_draws = 0

SebNext == SebLoop \/ SebReturn

SpecBranch == SebInit /\ [][SebNext]_vars

\* the calls in which the interpreter keeps running (the return is taken when
\* it is due) and in which, for each column, a candidate is accepted in the end
SpecBranchFair ==
    /\ SebInit
    /\ [][SebNext]_vars
    /\ WF_vars(SebReturn)
    /\ SF_vars(SebAccept)

(***************************************************************************)
(* simulate_coefficients                                                   *)
(***************************************************************************)
\* Python's binding of the call simulate_coefficients(tree, **kws) to the
\* signature (tree, a=0.05, **kwargs) of line 153: a keyword a binds the
\* parameter a, and kwargs collects the keywords that name no parameter
BindCoefCall(kws, av, bv) ==
    [a      |-> IF "a" \in kws THEN av ELSE DefaultA,
     kwargs |-> [key \in kws \ {"a"} |-> IF key = "b" THEN bv ELSE av]]

\* sut.create_groups(modules, G): groups[k] lists the genes of module k; every
\* gene is given to two modules
create_groups(modules, G) ==
    [m \in 1..modules |->
        {g \in 1..G : (g % modules) + 1 = m \/ ((g + 1) % modules) + 1 = m}]

\* lines 211-215: the matrices _sim_coeff_beta can return
SimCoeffBeta(tr, groups) ==
    {H \in [1..tr.modules -> [1..tr.G -> CoefVals \cup {0}]] :
        \A m \in 1..tr.modules : \A g \in 1..tr.G :
            (H[m][g] = 0) <=> (g \notin groups[m])}

\* lines 235-238: the matrices _sim_coeff_gamma can return
SimCoeffGamma(tr) == [1..tr.modules -> [1..tr.G -> CoefVals]]

\* lines 178-187 on the bound call: what is emitted, which policy draws the
\* matrix and from which distribution
CoefDispatch(tr, bound) ==
    IF "a" \notin DOMAIN bound.kwargs
    THEN \* lines 179-181
         [warn |-> 1, dist |-> [family |-> "gamma", a |-> bound.a, b |-> 0],
          draws |-> SimCoeffGamma(tr)]
    ELSE IF "b" \in DOMAIN bound.kwargs
    THEN \* lines 184-185: a and b are not handed on; the defaults of line 190 apply
         [warn |-> 0,
          dist |-> [family |-> "beta", a |-> BetaDefaultA, b |-> BetaDefaultB],
          draws |-> SimCoeffBeta(tr, create_groups(tr.modules, tr.G))]
    ELSE \* line 187
         [warn |-> 0, dist |-> [family |-> "gamma", a |-> bound.kwargs["a"], b |-> 0],
          draws |-> SimCoeffGamma(tr)]

\* the call simulate_coefficients(tr, **kws), start to return
SimulateCoefficients(tr, kws, av, bv) ==
    LET out == CoefDispatch(tr, BindCoefCall(kws, av, bv)) IN
    /\ warnings' = warnings + out.warn
    /\ coef_dist' = out.dist
    /\ coefficients' \in out.draws

simulate_coefficients ==
    /\ coef_pc = "call"
    /\ SimulateCoefficients(tree, kw, kw_a, kw_b)
    /\ coef_pc' = "done"
    /\ UNCHANGED <<dtVars, callVars, slVars, sebVars, smpVars>>

\* the keyword arguments a caller can write
CallerKeywords ==
    /\ kw \in SUBSET {"a", "b"}
    /\ kw_a \in (IF "a" \in kw THEN ShapeVals ELSE {0})
    /\ kw_b \in (IF "b" \in kw THEN ShapeVals ELSE {0})

CoefInit ==
    /\ DtIdle
    /\ tree \in [modules : 1..MaxModules, G : 1..MaxGenes]
    /\ CallerKeywords
    /\ coef_pc = "call"
    /\ coefficients = <<>>
    /\ coef_dist = [family |-> "none", a |-> 0, b |-> 0]
    /\ warnings = 0
    /\ SebIdle
    /\ SlIdle
    /\ SmpIdle

CoefNext == simulate_coefficients

SpecCoef == CoefInit /\ [][CoefNext]_vars

(***************************************************************************)
(* The Tree object: branches, time (branch -> length), topology (a list    *)
(* of [parent, child] pairs), modules, G and num_branches.                 *)
(***************************************************************************)
\* a chain of three branches whose middle branch has one time point, with
\* its edges listed from the root down
ChainTree ==
    [branches |-> <<0, 1, 2>>, num_branches |-> 3,
     time |-> (0 :> 2 @@ 1 :> 1 @@ 2 :> 2),
     topology |-> << <<0, 1>>, <<1, 2>> >>, modules |-> 1, G |-> 2]

\* the same chain with its edges listed from the leaf up
ChainTreeLeafFirst == [ChainTree EXCEPT !.topology = << <<1, 2>>, <<0, 1>> >>]

\* two successive bifurcations
ForkTree ==
    [branches |-> <<0, 1, 2, 3, 4>>, num_branches |-> 5,
     time |-> (0 :> 1 @@ 1 :> 2 @@ 2 :> 2 @@ 3 :> 2 @@ 4 :> 2),
     topology |-> << <<0, 1>>, <<0, 2>>, <<1, 3>>, <<1, 4>> >>,
     modules |-> 1, G |-> 1]

\* a tree that lacks the length of one of its branches
ShortTree ==
    [branches |-> <<0, 1>>, num_branches |-> 2,
     time |-> (0 :> 2),
     topology |-> << <<0, 1>> >>, modules |-> 1, G |-> 1]

\* a tree that has a length for a branch it does not have
LongTree ==
    [branches |-> <<0, 1>>, num_branches |-> 2,
     time |-> (0 :> 2 @@ 1 :> 2 @@ 2 :> 2),
     topology |-> << <<0, 1>> >>, modules |-> 1, G |-> 1]

\* the tolerances simulate_lineage is called with, as numerators over TolDen:
\* below the range, its two ends, above the range
IntraTols == {-1, 0, TolDen, TolDen + 1}
\* below the range, inside it, above the range
InterTols == {-1, 1, TolDen + 1}

LineageTrees == {ChainTree, ChainTreeLeafFirst, ForkTree, ShortTree, LongTree}

BranchSet(tr) == {tr.branches[i] : i \in 1..Len(tr.branches)}

\* tree.get_parallel_branches(): parent -> the list of its children, in the
\* order of tree.topology
get_parallel_branches(tr) ==
    [p \in {tr.topology[i][1] : i \in 1..Len(tr.topology)} |->
        SelectSeq([i \in 1..Len(tr.topology) |-> tr.topology[i][2]],
                  LAMBDA c : \E i \in 1..Len(tr.topology) : tr.topology[i] = <<p, c>>)]

RECURSIVE SortedSeq(_)
\* the elements of a finite set of integers in increasing order
SortedSeq(S) ==
    IF S = {} THEN <<>>
    ELSE LET m == CHOOSE x \in S : \A y \in S : x <= y
         IN  <<m>> \o SortedSeq(S \ {m})

SeqSet(q) == {q[i] : i \in 1..Len(q)}

(***************************************************************************)
(* simulate_expression_programs and the helpers of correct_parallel        *)
(***************************************************************************)
\* every pair of columns of the T x K matrix R passes the correlation test
ColumnsPass(R, t, kk, cut) ==
    \A a \in 1..kk : \A b \in 1..kk :
        a < b => ~PearsonMagGreater(Column(R, t, a), Column(R, t, b), t, cut)

\* the matrices a call sim_expr_branch(t, kk, cutoff=cut) can return: what
\* SebLoop and SebReturn produce, start to return
SimExprBranch(t, kk, cut) ==
    {R \in [1..t -> [1..kk -> WalkVals]] : ColumnsPass(R, t, kk, cut)}

\* a variant of line 37 that forgets the lower end of the range
TolInvalidUpperOnly(tol) == tol > TolDen

\* line 37: tol > 1 or tol < 0
TolInvalid(tol) == tol > TolDen \/ tol < 0

\* lines 40-42 and 334-337: a fresh program for each branch of the set bs
DrawPrograms(tr, bs, cut) ==
    {P \in [bs -> UNION {SimExprBranch(tr.time[b], tr.modules, cut) : b \in bs}] :
        \A b \in bs : P[b] \in SimExprBranch(tr.time[b], tr.modules, cut)}

\* sut.calc_relat_means(tree, programs, coefficients): np.dot per branch
calc_relat_means(tr, progs, H) ==
    [b \in DOMAIN progs |-> Dot(progs[b], H, tr.time[b], tr.modules, tr.G)]

\* sut.diverging_parallel(branches, relative_means, G, tol): one flag per gene,
\* True when no two branches of the group correlate above tol on that gene
\* over the time points they share
diverging_parallel(tr, group, means, tol) ==
    [g \in 1..tr.G |->
        \A i \in 1..Len(group) : \A j \in 1..Len(group) :
            i < j =>
                LET n == Min(tr.time[group[i]], tr.time[group[j]])
                IN  ~PearsonGreater(Column(means[group[i]], n, g),
                                    Column(means[group[j]], n, g), n, tol)]

\* Python's all()
All(flags) == \A i \in DOMAIN flags : flags[i]

\* sut.bifurc_adjust(child, parent): the child's means with their first row
\* set to the last row of the parent
bifurc_adjust(child, parent) == [child EXCEPT ![1] = parent[Len(parent)]]

(***************************************************************************)
(* simulate_lineage                                                        *)
(***************************************************************************)
\* a variant of line 275 that only notices lengths that are missing
TimesFewer(tr) == Cardinality(DOMAIN tr.time) < tr.num_branches

\* line 275: not len(tree.time) == tree.num_branches
TimesMismatch(tr) == Cardinality(DOMAIN tr.time) # tr.num_branches

\* lines 275-280: the check of the tree, then the coefficients
SlCoefficients ==
    /\ sl_pc = "start"
    /\ IF TimesMismatch(tree)
       THEN \* lines 276-278: the message, then sys.exit(1)
            /\ sl_pc' = "exit"
            /\ exit_code' = 1
            /\ UNCHANGED coefVars
       ELSE /\ SimulateCoefficients(tree, kw, kw_a, kw_b)
            /\ sl_pc' = "programs"
            /\ UNCHANGED <<coef_pc, exit_code>>
    /\ UNCHANGED <<intra_branch_tol, inter_branch_tol, programs, relative_means,
                   cp_todo, cp_key, redraws, drawn>>
    /\ UNCHANGED <<dtVars, callVars, sebVars, smpVars>>

\* line 281: simulate_expression_programs(tree, intra_branch_tol), lines 37-43
SlPrograms ==
    /\ sl_pc = "programs"
    /\ IF TolInvalid(intra_branch_tol)
       THEN \* line 38
            /\ sl_pc' = "ValueError"
            /\ UNCHANGED <<programs, drawn>>
       ELSE /\ programs' \in DrawPrograms(tree, BranchSet(tree), intra_branch_tol)
            /\ drawn' = [b \in BranchSet(tree) |-> 1]
            /\ sl_pc' = "correct"
    /\ UNCHANGED <<exit_code, intra_branch_tol, inter_branch_tol, relative_means, cp_todo,
                   cp_key, redraws>>
    /\ UNCHANGED <<dtVars, callVars, coefVars, sebVars, smpVars>>

\* lines 325-327: the first statements of correct_parallel
CpEnter ==
    /\ sl_pc = "correct"
    /\ relative_means' = calc_relat_means(tree, programs, coefficients)
    /\ cp_todo' = SortedSeq(DOMAIN get_parallel_branches(tree))
    /\ redraws' = [p \in DOMAIN get_parallel_branches(tree) |-> 0]
    /\ sl_pc' = "cp_for"
    /\ UNCHANGED <<exit_code, intra_branch_tol, inter_branch_tol, programs, cp_key, drawn>>
    /\ UNCHANGED <<dtVars, callVars, coefVars, sebVars, smpVars>>

\* a variant of line 333 that leaves the loop after one pass
CpLoopOnce(key, means, passes) ==
    /\ passes = 0
    /\ ~All(diverging_parallel(tree, get_parallel_branches(tree)[key], means,
                               inter_branch_tol))

\* lines 331-333 and 339-340: the test that keeps the while loop going, after
\* the given number of passes
CpLoop(key, means, passes) ==
    ~All(diverging_parallel(tree, get_parallel_branches(tree)[key], means,
                            inter_branch_tol))

\* line 330: the next key of the for loop, and the first test of its group
CpFor ==
    /\ sl_pc = "cp_for"
    /\ cp_todo # <<>>
    /\ cp_key' = Head(cp_todo)
    /\ cp_todo' = Tail(cp_todo)
    /\ sl_pc' = IF CpLoop(Head(cp_todo), relative_means, 0) THEN "cp_while" ELSE "cp_for"
    /\ UNCHANGED <<exit_code, intra_branch_tol, inter_branch_tol, programs, relative_means,
                   redraws, drawn>>
    /\ UNCHANGED <<dtVars, callVars, coefVars, sebVars, smpVars>>

\* a variant of lines 334-338 that re-draws the first branch of the group only
CpRedrawnFirstOnly(group) == {group[1]}

\* line 334: the branches one pass of the while loop re-draws
CpRedrawn(group) == SeqSet(group)

\* a variant of line 338 that keeps the means the branch had
StaleMeans(b, prog) == relative_means[b]

\* line 338: relative_means[branch] = np.dot(programs[branch], coefficients)
RedrawnMeans(b, prog) == Dot(prog, coefficients, tree.time[b], tree.modules, tree.G)

\* lines 334-340: one pass through the body of the while loop
CpWhile ==
    /\ sl_pc = "cp_while"
    /\ redraws[cp_key] < MaxRedraws
    /\ LET again == CpRedrawn(get_parallel_branches(tree)[cp_key]) IN
       \E fresh \in DrawPrograms(tree, again, intra_branch_tol) :
          LET progs == [b \in DOMAIN programs |->
                           IF b \in again THEN fresh[b] ELSE programs[b]]
              means == [b \in DOMAIN relative_means |->
                           IF b \in again
                           THEN RedrawnMeans(b, progs[b])
                           ELSE relative_means[b]]
          IN  /\ programs' = progs
              /\ relative_means' = means
              /\ drawn' = [b \in DOMAIN drawn |->
                              IF b \in again THEN drawn[b] + 1 ELSE drawn[b]]
              /\ redraws' = [redraws EXCEPT ![cp_key] = @ + 1]
              /\ sl_pc' = IF CpLoop(cp_key, means, redraws[cp_key] + 1)
                          THEN "cp_while" ELSE "cp_for"
    /\ UNCHANGED <<exit_code, intra_branch_tol, inter_branch_tol, cp_todo, cp_key>>
    /\ UNCHANGED <<dtVars, callVars, coefVars, sebVars, smpVars>>

\* line 341, line 284: correct_parallel returns
CpReturn ==
    /\ sl_pc = "cp_for"
    /\ cp_todo = <<>>
    /\ sl_pc' = "adjust"
    /\ UNCHANGED <<exit_code, intra_branch_tol, inter_branch_tol, programs, relative_means,
                   cp_todo, cp_key, redraws, drawn>>
    /\ UNCHANGED <<dtVars, callVars, coefVars, sebVars, smpVars>>

RECURSIVE AdjustEnds(_, _, _)
\* lines 287-288: "for b in tree.topology", from edge number i on
AdjustEnds(means, topology, i) ==
    IF i > Len(topology) THEN means
    ELSE LET b == topology[i] IN
         AdjustEnds([means EXCEPT ![b[2]] = bifurc_adjust(means[b[2]], means[b[1]])],
                    topology, i + 1)

\* lines 287-292: the ends are adjusted and simulate_lineage returns
SlReturn ==
    /\ sl_pc = "adjust"
    /\ relative_means' = AdjustEnds(relative_means, tree.topology, 1)
    /\ sl_pc' = "done"
    /\ UNCHANGED <<exit_code, intra_branch_tol, inter_branch_tol, programs, cp_todo, cp_key,
                   redraws, drawn>>
    /\ UNCHANGED <<dtVars, callVars, coefVars, sebVars, smpVars>>

\* the keyword arguments handed on to simulate_coefficients
LineageKeywords ==
    /\ kw \in {{}, {"a", "b"}}
    /\ kw_a = (IF "a" \in kw THEN DefaultA ELSE 0)
    /\ kw_b = (IF "b" \in kw THEN BetaDefaultB ELSE 0)

SlInit ==
    /\ DtIdle
    /\ tree \in LineageTrees
    /\ LineageKeywords
    /\ CoefIdle
    /\ SebIdle
    /\ SmpIdle
    /\ sl_pc = "start"
    /\ exit_code = -1
    /\ intra_branch_tol \in IntraTols
    /\ inter_branch_tol \in InterTols
    /\ programs = <<>>
    /\ relative_means = <<>>
    /\ cp_todo = <<>>
    /\ cp_key = -1
    /\ redraws = <<>>
    /\ drawn = <<>>

SlNext ==
    \/ SlCoefficients
    \/ SlPrograms
    \/ CpEnter
    \/ CpFor
    \/ CpWhile
    \/ CpReturn
    \/ SlReturn

SpecLineage == SlInit /\ [][SlNext]_vars

(***************************************************************************)
(* The tree as the sampling functions read it                              *)
(***************************************************************************)
\* one branch of two time points, two genes
OneBranchTree ==
    [branches |-> <<0>>, num_branches |-> 1, time |-> (0 :> 2),
     topology |-> <<>>, modules |-> 1, G |-> 2]

\* a branch of three time points followed by one of two
SeriesTree ==
    [branches |-> <<0, 1>>, num_branches |-> 2, time |-> (0 :> 3 @@ 1 :> 2),
     topology |-> << <<0, 1>> >>, modules |-> 1, G |-> 2]

\* a bifurcation into two branches of equal length
YTree ==
    [branches |-> <<0, 1, 2>>, num_branches |-> 3,
     time |-> (0 :> 2 @@ 1 :> 1 @@ 2 :> 1),
     topology |-> << <<0, 1>>, <<0, 2>> >>, modules |-> 1, G |-> 1]

\* a bifurcation into two branches of different lengths
YTreeUneven == [YTree EXCEPT !.time = (0 :> 1 @@ 1 :> 2 @@ 2 :> 1)]

RECURSIVE BranchTimesFrom(_, _, _)
BranchTimesFrom(tr, bt, i) ==
    IF i > Len(tr.topology) THEN bt
    ELSE LET e  == tr.topology[i]
             b0 == bt[e[1]][2] + 1
         IN  BranchTimesFrom(tr, bt @@ (e[2] :> <<b0, b0 + tr.time[e[2]] - 1>>), i + 1)

\* tree.branch_times(): branch -> [first, last] pseudotime of the branch
branch_times(tr) ==
    BranchTimesFrom(tr, (tr.branches[1] :> <<0, tr.time[tr.branches[1]] - 1>>), 1)

\* tree.get_max_time()
get_max_time(tr) ==
    LET bt == branch_times(tr)
    IN  1 + CHOOSE m \in {bt[b][2] : b \in DOMAIN bt} :
                \A b \in DOMAIN bt : bt[b][2] <= m

\* tree.populate_timezone(): the stretches of pseudotime over which the set of
\* branches does not change, as [first, last] pairs
populate_timezone(tr) ==
    LET bt      == branch_times(tr)
        borders == SortedSeq({bt[b][1] : b \in DOMAIN bt}
                             \cup {bt[b][2] + 1 : b \in DOMAIN bt})
    IN  [z \in 1..(Len(borders) - 1) |-> <<borders[z], borders[z + 1] - 1>>]

\* sut.assign_branches(branch_times, timezone): per zone, the branches that run
\* through it
assign_branches(bt, timezone) ==
    [z \in 1..Len(timezone) |->
        SortedSeq({b \in DOMAIN bt :
                      bt[b][1] <= timezone[z][1] /\ timezone[z][2] <= bt[b][2]})]

\* np.arange(start, end)
Arange(start, end) ==
    [i \in 1..(IF end > start THEN end - start ELSE 0) |-> start + i - 1]

\* [x] * n
Times(x, n) == [i \in 1..(IF n > 0 THEN n ELSE 0) |-> x]

\* np.repeat(x, n): every element n times in a row
Repeat(x, n) == [i \in 1..(Len(x) * n) |-> x[((i - 1) \div n) + 1]]

\* a variant of line 608 that leaves the last time point of the zone out
ZoneEndOpen(a) == a[2]

\* line 608: end = a[1] + 1
ZoneEnd(a) == a[2] + 1

RECURSIVE CoverBranches(_, _, _, _)
\* lines 610-612 for the branches i.. of one zone, appended to acc
CoverBranches(a, assigned, i, acc) ==
    IF i > Len(assigned) THEN acc
    ELSE LET start  == a[1]
             end    == ZoneEnd(a)
             length == end - start
         IN  CoverBranches(a, assigned, i + 1,
                 [pseudotime |-> acc.pseudotime \o Arange(start, end),
                  branches   |-> acc.branches \o Times(assigned[i], length)])

RECURSIVE CoverZones(_, _, _, _)
\* lines 606-612 for the zones n.., appended to acc
CoverZones(timezone, assignments, n, acc) ==
    IF n > Len(timezone) THEN acc
    ELSE CoverZones(timezone, assignments, n + 1,
                    CoverBranches(timezone[n], assignments[n], 1, acc))

\* lines 601-613
cover_whole_tree(tr) ==
    LET timezone    == populate_timezone(tr)
        assignments == assign_branches(branch_times(tr), timezone)
    IN  CoverZones(timezone, assignments, 1, [pseudotime |-> <<>>, branches |-> <<>>])

(***************************************************************************)
(* _sample_data_at_times and draw_counts.  Numbers that can be floats      *)
(* (alpha, beta, and the entries of branches, which line 388 fills with    *)
(* floats) are kept in hundredths: the branch b is the entry 100 * b.      *)
(***************************************************************************)
\* the values of a per-gene parameter, of a mean, of a scaling factor
ParamVals == {20, 100}
MeanVals == {1, 2}
ScaleVals == {1, 2}

\* the defaults of line 616: branches=None, alpha=0.3, beta=2
SampleAlphaDefault == 30
SampleBetaDefault == 200

None == [kind |-> "none", val |-> 0]
Scalar(x) == [kind |-> "scalar", val |-> x]
Array(x) == [kind |-> "array", val |-> x]

\* Python's binding of a call _sample_data_at_times(tree, sample_pt, *pos, **kws)
\* to the parameters of line 616 that follow sample_pt
BindSampleCall(pos, kws) ==
    LET names    == <<"branches", "alpha", "beta">>
        defaults == [branches |-> None, alpha |-> Scalar(SampleAlphaDefault),
                     beta |-> Scalar(SampleBetaDefault)]
        at(i)    == IF i <= Len(pos) THEN pos[i]
                    ELSE IF names[i] \in DOMAIN kws THEN kws[names[i]]
                    ELSE defaults[names[i]]
    IN  [branches |-> at(1), alpha |-> at(2), beta |-> at(3)]

\* lines 655-658: a scalar becomes a list of G copies
Broadcast(x, G) == IF x.kind = "scalar" THEN Times(x.val, G) ELSE x.val

\* the branches a pseudotime lies on
ValidBranches(tr, t) ==
    {b \in BranchSet(tr) : branch_times(tr)[b][1] <= t /\ t <= branch_times(tr)[b][2]}

\* sut.pick_branches(tree, sample_pt): for each pseudotime one of its branches
pick_branches(tr, sample_pt) ==
    {br \in [1..Len(sample_pt) -> {100 * b : b \in BranchSet(tr)}] :
        \A i \in 1..Len(sample_pt) :
            \E b \in ValidBranches(tr, sample_pt[i]) : br[i] = 100 * b}

\* sut.calc_scalings(N, scale, scale_v): one factor per cell, 1 without scaling
calc_scalings(N, sc) == IF sc THEN [1..N -> ScaleVals] ELSE {Times(1, N)}

\* lines 654-662: _sample_data_at_times up to the first cell of draw_counts
SampleDataAtTimes(tr, sample_pt, args, sc) ==
    /\ dc_pseudotime' = sample_pt
    /\ dc_alpha' = Broadcast(args.alpha, tr.G)
    /\ dc_beta' = Broadcast(args.beta, tr.G)
    /\ IF args.branches.kind = "none"
       THEN /\ picked' = TRUE
            /\ dc_branches' \in pick_branches(tr, sample_pt)
       ELSE /\ picked' = FALSE
            /\ dc_branches' = args.branches.val
    /\ dc_scalings' \in calc_scalings(Len(sample_pt), sc)
    /\ dc_n' = 0
    /\ dc_last' = NoCell
    /\ smp_pc' = "cells"

\* the row M[i] reads of an array of the given number of rows: row i, counted
\* from the end when i is negative; 0 stands for IndexError
PyIndex(rows, i) ==
    IF 0 <= i /\ i < rows THEN i + 1
    ELSE IF -rows <= i /\ i < 0 THEN rows + i + 1
    ELSE 0

\* lines 701-713: one pass of the loop over the cells
DcCell ==
    /\ smp_pc = "cells"
    /\ dc_n < Min(Len(dc_pseudotime), Len(dc_branches))
    /\ LET t   == dc_pseudotime[dc_n + 1]
           key == dc_branches[dc_n + 1]
           bt  == branch_times(tree)
       IN  IF key % 100 # 0 \/ (key \div 100) \notin DOMAIN bt
           THEN \* line 702: the entry is no branch of the tree
                /\ smp_pc' = "KeyError"
                /\ UNCHANGED <<dc_n, dc_last>>
           ELSE LET b     == key \div 100
                    T_off == bt[b][1]
                    M     == tree_means[b]
                    row   == PyIndex(Len(M), t - T_off)
                    used  == IF row = 0 THEN Len(M) ELSE row
                IN  /\ dc_last' =
                          [t |-> t, b |-> b, offset |-> t - T_off, rows |-> Len(M),
                           mu |-> [g \in 1..tree.G |-> M[used][g] * dc_scalings[dc_n + 1]],
                           diags |-> IF row = 0 THEN tree.G ELSE 0]
                    /\ dc_n' = dc_n + 1
                    /\ UNCHANGED smp_pc
    /\ UNCHANGED <<smp_entry, tree_means, n_factor, scale, alphas, betas, picked,
                   dc_pseudotime, dc_branches, dc_scalings, dc_alpha, dc_beta>>
    /\ UNCHANGED <<dtVars, callVars, coefVars, slVars, sebVars>>

\* the loop ends and draw_counts returns the matrix
DcReturn ==
    /\ smp_pc = "cells"
    /\ dc_n >= Min(Len(dc_pseudotime), Len(dc_branches))
    /\ smp_pc' = "done"
    /\ UNCHANGED <<smp_entry, tree_means, n_factor, scale, alphas, betas, picked,
                   dc_pseudotime, dc_branches, dc_scalings, dc_alpha, dc_beta,
                   dc_n, dc_last>>
    /\ UNCHANGED <<dtVars, callVars, coefVars, slVars, sebVars>>

\* the means of a tree whose rows differ from each other
RowCodedMeans(tr) ==
    [b \in BranchSet(tr) |->
        [i \in 1..tr.time[b] |-> [g \in 1..tr.G |-> 10 * b + i + g]]]

\* a call of draw_counts with any pseudotime and branch for each cell
DcInit ==
    /\ CallerIdle
    /\ tree \in {SeriesTree, YTreeUneven}
    /\ smp_pc = "cells"
    /\ smp_entry = "draw_counts"
    /\ tree_means = RowCodedMeans(tree)
    /\ n_factor = 0
    /\ scale = TRUE
    /\ alphas = <<>>
    /\ betas = <<>>
    /\ picked = FALSE
    /\ \E N \in 1..MaxCells :
          /\ dc_pseudotime \in [1..N -> 0..get_max_time(tree)]
          /\ dc_branches \in [1..N -> {100 * b : b \in BranchSet(tree)}]
          /\ dc_scalings \in [1..N -> ScaleVals]
    /\ dc_alpha = Times(SampleAlphaDefault, tree.G)
    /\ dc_beta = Times(SampleBetaDefault, tree.G)
    /\ dc_n = 0
    /\ dc_last = NoCell

DcNext == DcCell \/ DcReturn

SpecDrawCounts == DcInit /\ [][DcNext]_vars

(***************************************************************************)
(* sample_whole_tree_restricted                                            *)
(***************************************************************************)
\* the relative means simulate_lineage can hand back for a tree, scaled as in
\* line 383
LineageMeans(tr) ==
    {m \in [BranchSet(tr) ->
               UNION {[1..tr.time[b] -> [1..tr.G -> MeanVals]] : b \in BranchSet(tr)}] :
        \A b \in BranchSet(tr) : Len(m[b]) = tr.time[b]}

\* lines 376-385: the lineage is simulated until its lengths are right and
\* its means are stored in the tree
SwtrLineage ==
    /\ smp_pc = "restricted"
    /\ tree_means' \in LineageMeans(tree)
    /\ warnings' = warnings + 1
    /\ smp_pc' = "params"
    /\ UNCHANGED <<smp_entry, n_factor, scale, alphas, betas, picked, dc_pseudotime,
                   dc_branches, dc_scalings, dc_alpha, dc_beta, dc_n, dc_last>>
    /\ UNCHANGED <<dtVars, callVars, coef_pc, coefficients, coef_dist, slVars, sebVars>>

\* lines 386-388, then lines 654-662
SwtrSample ==
    /\ smp_pc = "params"
    /\ \E al \in [1..tree.G -> ParamVals] : \E be \in [1..tree.G -> ParamVals] :
          /\ alphas' = al
          /\ betas' = be
          /\ SampleDataAtTimes(tree, Arange(0, get_max_time(tree)),
                               BindSampleCall(<<Array(al), Array(be)>>, <<>>), TRUE)
    /\ UNCHANGED <<smp_entry, tree_means, n_factor, scale>>
    /\ UNCHANGED <<dtVars, callVars, coefVars, slVars, sebVars>>

SwtrInit ==
    /\ CallerIdle
    /\ tree \in {OneBranchTree, YTree}
    /\ smp_pc = "restricted"
    /\ smp_entry = "restricted"
    /\ tree_means = <<>>
    /\ n_factor = 0
    /\ scale = TRUE
    /\ alphas = <<>>
    /\ betas = <<>>
    /\ picked = FALSE
    /\ dc_pseudotime = <<>>
    /\ dc_branches = <<>>
    /\ dc_scalings = <<>>
    /\ dc_alpha = <<>>
    /\ dc_beta = <<>>
    /\ dc_n = 0
    /\ dc_last = NoCell

SwtrNext == SwtrLineage \/ SwtrSample \/ DcCell \/ DcReturn

SpecRestricted == SwtrInit /\ [][SwtrNext]_vars

(***************************************************************************)
(* sample_whole_tree                                                       *)
(***************************************************************************)
\* lines 575-582, then lines 654-662
SwtSample ==
    /\ smp_pc = "whole"
    /\ LET cover == cover_whole_tree(tree)
           brs   == Repeat(cover.branches, n_factor)
           pts   == Repeat(cover.pseudotime, n_factor)
       IN  SampleDataAtTimes(tree, pts,
               BindSampleCall(<<>>,
                   [alpha    |-> Scalar(SampleAlphaDefault),
                    beta     |-> Scalar(SampleBetaDefault),
                    branches |-> Array([i \in 1..Len(brs) |-> 100 * brs[i]])]),
               scale)
    /\ UNCHANGED <<smp_entry, tree_means, n_factor, scale, alphas, betas>>
    /\ UNCHANGED <<dtVars, callVars, coefVars, slVars, sebVars>>

SwtInit ==
    /\ CallerIdle
    /\ tree \in {YTree, YTreeUneven, SeriesTree}
    /\ smp_pc = "whole"
    /\ smp_entry = "whole"
    /\ tree_means = RowCodedMeans(tree)
    /\ n_factor \in 0..MaxFactor
    /\ scale \in BOOLEAN
    /\ alphas = <<>>
    /\ betas = <<>>
    /\ picked = FALSE
    /\ dc_pseudotime = <<>>
    /\ dc_branches = <<>>
    /\ dc_scalings = <<>>
    /\ dc_alpha = <<>>
    /\ dc_beta = <<>>
    /\ dc_n = 0
    /\ dc_last = NoCell

SwtNext == SwtSample \/ DcCell \/ DcReturn

SpecWholeTree == SwtInit /\ [][SwtNext]_vars

(***************************************************************************)
(* draw_times.  A draw of the normal distribution is a real number; the    *)
(* model keeps it as a numerator over DrawDen.                             *)
(***************************************************************************)
\* draw_times is called with max_time in 1..MaxTime and timepoint in 0..MaxTime
MaxTime == 3
\* and with no_cells in 0..MaxDrawn
MaxDrawn == 2
\* the draws are the multiples of 1 / DrawDen
DrawDen == 2
\* that lie within DrawSpan / DrawDen of timepoint
DrawSpan == 4

\* no other part of the module is running
DtCallerIdle ==
    /\ CallIdle
    /\ CoefIdle
    /\ SebIdle
    /\ SlIdle
    /\ SmpIdle

\* line 477: the arrays sp.stats.norm.rvs(loc, scale, size) can return
NormRvs(loc, size) ==
    [1..size -> {loc * DrawDen + e : e \in -DrawSpan..DrawSpan}]

\* line 478: astype(int) of the float x / DrawDen drops the fraction, towards
\* zero for a negative number
AsTypeInt(x) == IF x >= 0 THEN x \div DrawDen ELSE -((-x) \div DrawDen)

\* a variant of the test of line 480 that lets max_time itself through
AboveMax(x, m) == x > m

\* line 480: sample_pt >= max_time
AtOrAboveMax(x, m) == x >= m

\* line 477
DtRvs ==
    /\ dt_pc = "rvs"
    /\ dt_rvs' \in NormRvs(timepoint, no_cells)
    /\ dt_sample_pt' = dt_rvs'
    /\ dt_pc' = "astype"
    /\ UNCHANGED <<timepoint, no_cells, max_time>>
    /\ UNCHANGED <<callVars, coefVars, slVars, sebVars, smpVars>>

\* line 478
DtAsType ==
    /\ dt_pc = "astype"
    /\ dt_sample_pt' = [i \in DOMAIN dt_sample_pt |-> AsTypeInt(dt_sample_pt[i])]
    /\ dt_pc' = "clamp"
    /\ UNCHANGED <<timepoint, no_cells, max_time, dt_rvs>>
    /\ UNCHANGED <<callVars, coefVars, slVars, sebVars, smpVars>>

\* lines 479-481: the two masked assignments to sample_pt, one after the other, and the return
DtClamp ==
    /\ dt_pc = "clamp"
    /\ LET low == [i \in DOMAIN dt_sample_pt |->
                      IF dt_sample_pt[i] < 0 THEN 0 ELSE dt_sample_pt[i]]
       IN  dt_sample_pt' = [i \in DOMAIN low |->
                            IF AtOrAboveMax(low[i], max_time)
                            THEN max_time - 1 ELSE low[i]]
    /\ dt_pc' = "done"
    /\ UNCHANGED <<timepoint, no_cells, max_time, dt_rvs>>
    /\ UNCHANGED <<callVars, coefVars, slVars, sebVars, smpVars>>

DtInit ==
    /\ DtCallerIdle
    /\ dt_pc = "rvs"
    /\ timepoint \in 0..MaxTime
    /\ no_cells \in 0..MaxDrawn
    /\ max_time \in 1..MaxTime
    /\ dt_rvs = <<>>
    /\ dt_sample_pt = <<>>

DtNext == DtRvs \/ DtAsType \/ DtClamp

SpecDrawTimes == DtInit /\ [][DtNext]_vars

(***************************************************************************)
(* The module as a whole: a run is one call of one of its entry points.    *)
(***************************************************************************)
Init ==
    \/ SebInit
    \/ CoefInit
    \/ SlInit
    \/ DcInit
    \/ SwtrInit
    \/ SwtInit
    \/ DtInit

Next ==
    \/ SebNext
    \/ CoefNext
    \/ SlNext
    \/ DcNext
    \/ SwtrNext
    \/ SwtNext
    \/ DtNext

Spec == Init /\ [][Next]_vars

(***************************************************************************)
(* Properties of sim_expr_branch                                           *)
(***************************************************************************)
\* C2: once the consecutive rejections of one column exceed max_loops the
\* branch is restarted, so the retry counter of a call with max_loops >= 0
\* never passes max_loops + 1.
C2_RestartAfterMaxLoops ==
    (seb_pc = "loop" /\ max_loops >= 0) => loops <= max_loops + 1

\* the shape of a matrix
HasShape(R, rows, cols) ==
    /\ DOMAIN R = 1..rows
    /\ \A i \in 1..rows : DOMAIN R[i] = 1..cols

\* C7, on return: the result is T x K and all its columns pass pairwise
C7_Returned ==
    seb_pc = "done" =>
        /\ HasShape(seb_result, T, K)
        /\ ColumnsPass(seb_result, T, K, cutoff)

\* C7, on each step of one call: the accepted columns 0..k-1 are left as they
\* are, and a column is accepted only if it passes against all of them
C7_Step ==
    (seb_pc = "loop" /\ seb_calls' = seb_calls) =>
        /\ k' >= k
        /\ \A i \in 1..k : W'[i] = W[i]
        /\ k' > k => (k' = k + 1 /\ ~test_correlation(W', k, cutoff, T))

\* C7: sim_expr_branch returns a T x K matrix whose columns pass the
\* correlation test pairwise; a column is accepted only after the test against
\* all accepted columns, and accepted columns are never overwritten in a run.
C7_AcceptedColumnsPass == [](C7_Returned) /\ [][C7_Step]_vars

\* a call that returned K >= 2 columns after at least one rejection
C7_Witness == seb_pc = "done" /\ K >= 2 /\ seb_draws > K /\ cutoff < TolDen

\* C13, one step of a call: k does not decrease; a pass through the loop body
\* leaves k and adds one to the retry counter when the candidate is rejected,
\* and adds one to k and resets the counter when it is accepted; with k = K the
\* call returns without another draw.  A restart is a new call with its own k.
C13_Step ==
    /\ (seb_pc = "loop" /\ seb_calls' = seb_calls) =>
          /\ k' >= k
          /\ IF k < K
             THEN /\ seb_draws' = seb_draws + 1
                  /\ seb_pc' = "loop"
                  /\ IF test_correlation(W', k, cutoff, T)
                     THEN k' = k /\ loops' = loops + 1
                     ELSE k' = k + 1 /\ loops' = 0
             ELSE /\ seb_pc' = "done"
                  /\ seb_draws' = seb_draws
                  /\ k' = k
    /\ seb_calls' # seb_calls =>
          /\ max_loops < 0
          /\ seb_calls' = seb_calls + 1
          /\ k' = 0
          /\ loops' = 0

\* C13, a call that has returned: k = K, and nothing was drawn when K = 0
C13_Returned ==
    seb_pc = "done" =>
        /\ k = K
        /\ K = 0 => seb_draws = 0

\* C13: when every column gets an accepted candidate in the end, a call of
\* sim_expr_branch returns; k never decreases, moves by one on an acceptance
\* (retry counter back to 0), stays on a rejection (retry counter up by one),
\* and the call returns once k = K, at once and without a draw when K = 0.
C13_Terminates ==
    /\ (seb_pc = "loop") ~> (seb_pc = "done")
    /\ [](C13_Returned)
    /\ [][C13_Step]_vars

\* a call returned K >= 2 columns after it had reached the cap on the
\* rejections in a row
C13_Witness == seb_pc = "done" /\ K >= 2 /\ seb_draws >= K + MaxRetries

(***************************************************************************)
(* Properties of simulate_coefficients                                     *)
(***************************************************************************)
\* C1: with both a and b given the beta policy draws the assigned entries from
\* Beta(a, b) and leaves the others zero; otherwise the gamma policy draws with
\* shape a; the warning is emitted exactly when a was not given.
C1_PolicyByKeywords ==
    coef_pc = "done" =>
        /\ ("a" \in kw /\ "b" \in kw) =>
              /\ coef_dist = [family |-> "beta", a |-> kw_a, b |-> kw_b]
              /\ coefficients \in SimCoeffBeta(tree, create_groups(tree.modules, tree.G))
        /\ ~("a" \in kw /\ "b" \in kw) =>
              coef_dist = [family |-> "gamma",
                           a |-> IF "a" \in kw THEN kw_a ELSE DefaultA, b |-> 0]
        /\ (warnings = 1) <=> ("a" \notin kw)

(***************************************************************************)
(* Properties of simulate_lineage and correct_parallel                     *)
(***************************************************************************)
\* C4: when simulate_lineage returns, on every edge of tree.topology the first
\* row of the child's relative means equals the last row of the parent's.
C4_EdgesContinuous ==
    sl_pc = "done" =>
        \A i \in 1..Len(tree.topology) :
            LET parent == tree.topology[i][1]
                child  == tree.topology[i][2]
            IN  relative_means[child][1] = relative_means[parent][tree.time[parent]]

\* the group of a key passes the divergence test with the given means
GroupDiverges(key, means) ==
    \A g \in 1..tree.G :
        diverging_parallel(tree, get_parallel_branches(tree)[key], means,
                           inter_branch_tol)[g]

\* C6: when correct_parallel returns, every group of parallel branches passes
\* the divergence test at inter_branch_tol with the returned relative means.
C6_GroupsDiverge ==
    sl_pc = "adjust" =>
        \A key \in DOMAIN get_parallel_branches(tree) :
            GroupDiverges(key, relative_means)

\* correct_parallel returned after the second group of the fork was re-drawn,
\* the first group having been dealt with before
C6_Witness ==
    /\ sl_pc = "adjust"
    /\ tree = ForkTree
    /\ redraws[0] >= 1
    /\ redraws[1] >= 1

\* a tolerance outside [0, 1]
OutsideUnit(tol) == tol < 0 \/ tol > TolDen

\* C8 as stated: with either tolerance outside [0, 1] simulate_lineage draws
\* no coefficient and no expression program.
C8_RejectedBeforeAnyDraw ==
    (sl_pc # "idle" /\ (OutsideUnit(intra_branch_tol) \/ OutsideUnit(inter_branch_tol)))
        => (coefficients = <<>> /\ programs = <<>>)

C8_State ==
    /\ OutsideUnit(intra_branch_tol) =>
          (programs = <<>> /\ sl_pc \in {"idle", "start", "programs", "ValueError", "exit"})
    /\ sl_pc = "ValueError" => (OutsideUnit(intra_branch_tol) /\ coefficients # <<>>)
    /\ ~OutsideUnit(intra_branch_tol) => sl_pc # "ValueError"

C8_Step ==
    (sl_pc = "programs" /\ OutsideUnit(intra_branch_tol)) => sl_pc' = "ValueError"

\* C8, amended: the ValueError is raised for intra_branch_tol outside [0, 1],
\* before any expression program is drawn and after the coefficients are; 0
\* and 1 are accepted, and inter_branch_tol is not checked.
C8_IntraRejectedBeforePrograms == [](C8_State) /\ [][C8_Step]_vars

\* the ValueError was raised, with inter_branch_tol out of range as well
C8_Witness ==
    /\ sl_pc = "ValueError"
    /\ warnings = 1
    /\ OutsideUnit(inter_branch_tol)

\* C9, one pass of the while loop: every branch of the group gets a new
\* program and the means of that program, the retest reads them, and nothing
\* else changes
C9_Step ==
    (sl_pc = "cp_while" /\ redraws' # redraws) =>
        /\ coefficients' = coefficients
        /\ \A b \in BranchSet(tree) :
              IF b \in SeqSet(get_parallel_branches(tree)[cp_key])
              THEN /\ drawn'[b] = drawn[b] + 1
                   /\ programs'[b] \in SimExprBranch(tree.time[b], tree.modules,
                                                    intra_branch_tol)
                   /\ relative_means'[b] =
                          Dot(programs'[b], coefficients, tree.time[b],
                              tree.modules, tree.G)
              ELSE /\ drawn'[b] = drawn[b]
                   /\ programs'[b] = programs[b]
                   /\ relative_means'[b] = relative_means[b]
        /\ (sl_pc' = "cp_for") <=> GroupDiverges(cp_key, relative_means')

\* C9: a pass of the while loop of correct_parallel re-draws the program and
\* recomputes the means of every branch of the failing group before the
\* retest, and changes no other branch and not the coefficients.
C9_RedrawWholeGroup == [][C9_Step]_vars

\* a group of two branches has been re-drawn
C9_Witness ==
    /\ sl_pc \in {"cp_while", "cp_for"}
    /\ tree = ForkTree
    /\ cp_key = 1
    /\ redraws[1] >= 1
    /\ drawn[3] >= 2
    /\ drawn[4] >= 2

\* C14: from the first statement of correct_parallel to its return, whatever
\* was re-drawn in between, the relative means of every branch are the product
\* of the program of that branch with the coefficient matrix.
C14_MeansFollowPrograms ==
    sl_pc \in {"cp_for", "cp_while", "adjust"} =>
        \A b \in BranchSet(tree) :
            relative_means[b] =
                Dot(programs[b], coefficients, tree.time[b], tree.modules, tree.G)

\* correct_parallel returned after two passes for the second group of the
\* fork and none for the first
C14_Witness ==
    /\ sl_pc = "adjust"
    /\ tree = ForkTree
    /\ redraws[0] = 0
    /\ redraws[1] = 2
    /\ drawn[1] = 1
    /\ drawn[3] = 3

\* the tree has not one length per branch
C12_CountsDiffer == Cardinality(DOMAIN tree.time) # tree.num_branches

C12_State ==
    /\ sl_pc = "exit" =>
          /\ C12_CountsDiffer
          /\ exit_code = 1
          /\ coefficients = <<>>
          /\ warnings = 0
          /\ programs = <<>>
          /\ relative_means = <<>>
    /\ (sl_pc # "idle" /\ C12_CountsDiffer) => sl_pc \in {"start", "exit"}
    /\ sl_pc # "exit" => exit_code = -1

C12_Step ==
    /\ tree' = tree
    /\ sl_pc = "start" =>
          sl_pc' = (IF C12_CountsDiffer THEN "exit" ELSE "programs")

\* C12: on a tree whose number of lengths differs from its number of branches
\* simulate_lineage ends the process with status 1 before it draws a
\* coefficient or a program and without changing the tree; with equal numbers
\* it goes on to the coefficients.
C12_ExitOnMismatch == [](C12_State) /\ [][C12_Step]_vars

\* the process was ended on a tree with a length too many, called with keywords
C12_Witness ==
    /\ sl_pc = "exit"
    /\ exit_code = 1
    /\ tree = LongTree
    /\ kw # {}

(***************************************************************************)
(* Properties of the sampling strategies and of draw_counts                *)
(***************************************************************************)
\* C3: sample_whole_tree_restricted hands draw_counts the pseudotimes
\* 0..max_time-1 once each, a branch picked by the branch picker among the
\* branches valid for each, and the parameters of generate_negbin_params as
\* alpha and beta.
C3_RestrictedCall ==
    (smp_entry = "restricted" /\ smp_pc \in {"cells", "done", "KeyError"}) =>
        /\ dc_pseudotime = Arange(0, get_max_time(tree))
        /\ picked
        /\ Len(dc_branches) = Len(dc_pseudotime)
        /\ \A i \in 1..Len(dc_branches) :
              \E b \in ValidBranches(tree, dc_pseudotime[i]) : dc_branches[i] = 100 * b
        /\ dc_alpha = alphas
        /\ dc_beta = betas

\* C5: for a cell whose offset is outside the trajectory of its branch
\* (offset < 0 or offset >= rows) draw_counts takes the last row times the
\* scaling factor as the mean of every gene and prints a diagnostic; inside,
\* it takes the row at the offset; it does not fail.
C5_LastRowOutside ==
    (smp_entry = "draw_counts" /\ dc_n > 0) =>
        LET c == dc_last
            M == tree_means[c.b]
            f == dc_scalings[dc_n]
        IN  /\ smp_pc # "KeyError"
            /\ IF c.offset < 0 \/ c.offset >= c.rows
               THEN /\ c.mu = [g \in 1..tree.G |-> M[c.rows][g] * f]
                    /\ c.diags > 0
               ELSE /\ c.mu = [g \in 1..tree.G |-> M[c.offset + 1][g] * f]
                    /\ c.diags = 0

\* the number of entries i with pseudotime t and branch b
PairCount(t, b) ==
    Cardinality({i \in 1..Len(dc_pseudotime) :
                    dc_pseudotime[i] = t /\ dc_branches[i] = 100 * b})

\* the sum over the zones n.. of (zone length x branches assigned to the zone)
RECURSIVE ZonePairs(_, _, _)
ZonePairs(timezone, assignments, n) ==
    IF n > Len(timezone) THEN 0
    ELSE (timezone[n][2] - timezone[n][1] + 1) * Len(assignments[n])
         + ZonePairs(timezone, assignments, n + 1)

\* C10: sample_whole_tree with n_factor = n hands draw_counts every valid
\* (pseudotime, branch) pair of every zone exactly n times, paired entry by
\* entry: n * sum over the zones of (zone length x branches of the zone) cells.
C10_WholeTreeCoverage ==
    (smp_entry = "whole" /\ smp_pc \in {"cells", "done"}) =>
        LET timezone    == populate_timezone(tree)
            assignments == assign_branches(branch_times(tree), timezone)
        IN  /\ Len(dc_pseudotime) = n_factor * ZonePairs(timezone, assignments, 1)
            /\ Len(dc_branches) = Len(dc_pseudotime)
            /\ smp_pc = "done" => dc_n = Len(dc_pseudotime)
            /\ \A i \in 1..Len(dc_pseudotime) :
                  \E z \in 1..Len(timezone) :
                      /\ timezone[z][1] <= dc_pseudotime[i]
                      /\ dc_pseudotime[i] <= timezone[z][2]
                      /\ \E j \in 1..Len(assignments[z]) :
                            dc_branches[i] = 100 * assignments[z][j]
            /\ \A z \in 1..Len(timezone) : \A j \in 1..Len(assignments[z]) :
                  \A t \in timezone[z][1]..timezone[z][2] :
                      PairCount(t, assignments[z][j]) = n_factor

\* every cell of a bifurcating tree was sampled, twice each
C10_Witness ==
    /\ smp_entry = "whole"
    /\ smp_pc = "done"
    /\ tree = YTreeUneven
    /\ n_factor = 2
    /\ dc_n = 8

(***************************************************************************)
(* Properties of draw_times                                                *)
(***************************************************************************)
\* C11: draw_times with max_time >= 1 returns no_cells integers in
\* 0..max_time-1; a draw below 0 gives 0, a draw at or above max_time gives
\* max_time - 1, a draw in between gives its integer part.
C11_ClampedTimes ==
    dt_pc = "done" =>
        /\ DOMAIN dt_sample_pt = 1..no_cells
        /\ \A i \in 1..no_cells :
              /\ dt_sample_pt[i] \in 0..(max_time - 1)
              /\ dt_rvs[i] < 0 => dt_sample_pt[i] = 0
              /\ dt_rvs[i] >= max_time * DrawDen => dt_sample_pt[i] = max_time - 1
              /\ (0 <= dt_rvs[i] /\ dt_rvs[i] < max_time * DrawDen) =>
                    /\ dt_sample_pt[i] * DrawDen <= dt_rvs[i]
                    /\ dt_rvs[i] < (dt_sample_pt[i] + 1) * DrawDen

\* a call returned two cells, one drawn between -1 and 0 and one drawn at
\* max_time exactly
C11_Witness ==
    /\ dt_pc = "done"
    /\ no_cells = 2
    /\ max_time >= 2
    /\ -DrawDen < dt_rvs[1] /\ dt_rvs[1] < 0
    /\ dt_rvs[2] = max_time * DrawDen

====
